---- MODULE Spec2Model ----
(***************************************************************************)
(* State model of the attendance tracker (App component, src/src/types.ts): *)
(* the per-day attendance store `history`, the activity log `logs`, the    *)
(* selected date, the display clock, the two memoised statistics and the   *)
(* two localStorage values, under the handlers toggleAttendance,           *)
(* resetAttendance, the date input's onChange and the one-second timer.    *)
(***************************************************************************)
EXTENDS Integers, Sequences, FiniteSets, TLC

VARIABLES
    history,        \* useState<DailyData>: date key -> sequence of records
    logs,           \* useState<LogEntry[]>: newest first
    selectedDate,   \* useState: date key of the date input
    time,           \* useState(new Date()): the displayed clock
    now,            \* the wall clock, as last read by the program
    rng,            \* number of Math.random() draws made so far
    weeklyStats,    \* useMemo(.., [history]): the value cached when history last changed
    storage,        \* localStorage: key -> stored text
    mounted         \* whether the component tree is rendered: no error has escaped

vars == <<history, logs, selectedDate, time, now, rng, weeklyStats, storage, mounted>>

----------------------------------------------------------------------------
(* Bounds of the model *)

\* number of roster participants the user clicks on
MaxNames == 2
\* number of consecutive calendar days, from the first, the date input can be set to
MaxDates == 1
\* number of toggles in a run of Spec, and after the opening of a run of SpecLog
MaxToggles == 2
\* number of instants at which the wall clock is read
MaxInstants == 2
\* number of toggles of one participant that open a run of SpecLog
PriorToggles == 99

----------------------------------------------------------------------------
(* Program constants *)

FRIENDS == <<"Yolanda", "Fadhil", "Nisa", "Aurel", "Jihan", "Alisa", "Opang", "Clara", "Caca">>

\* the log keeps at most this many entries: .slice(0, 100)
LogCap == 100

\* startOfWeek(.., { weekStartsOn: 1 })
WeekStartsOn == 1

\* Array.from({ length: 7 }, ..)
WeekLength == 7

HISTORY_KEY == "attendance_history_v2"
LOGS_KEY == "attendance_logs_v2"

\* the JavaScript value null
NULL == "null"

\* first day of the modelled calendar window: Sunday 2024-02-25,
\* in days since 1970-01-01
FirstDay == 19778

----------------------------------------------------------------------------
(* Dates: a Date is [day |-> days since 1970-01-01 in local time,          *)
(* sec |-> second of that day]; date keys and time strings are strings.    *)

SecondsPerDay == 86400

\* proleptic Gregorian calendar: day number -> <<year, month, day>>
CivilFromDays(n) ==
    LET z   == n + 719468
        era == z \div 146097
        doe == z - era * 146097
        yoe == (doe - doe \div 1460 + doe \div 36524 - doe \div 146096) \div 365
        doy == doe - (365 * yoe + yoe \div 4 - yoe \div 100)
        mp  == (5 * doy + 2) \div 153
        d   == doy - (153 * mp + 2) \div 5 + 1
        m   == IF mp < 10 THEN mp + 3 ELSE mp - 9
        y   == yoe + era * 400 + (IF m <= 2 THEN 1 ELSE 0)
    IN  <<y, m, d>>

\* a number written with at least two digits
Pad2(n) == IF n < 10 THEN "0" \o ToString(n) ELSE ToString(n)

\* a year written with at least four digits
Pad4(n) ==
    IF n < 10 THEN "000" \o ToString(n)
    ELSE IF n < 100 THEN "00" \o ToString(n)
    ELSE IF n < 1000 THEN "0" \o ToString(n)
    ELSE ToString(n)

\* Date.prototype.getDay(): 0 = Sunday .. 6 = Saturday
GetDay(date) == (date.day + 4) % 7

\* format(date, 'yyyy-MM-dd')
FormatDate(date) ==
    LET ymd == CivilFromDays(date.day)
    IN  Pad4(ymd[1]) \o "-" \o Pad2(ymd[2]) \o "-" \o Pad2(ymd[3])

\* format(date, 'HH:mm:ss')
FormatTime(date) ==
    Pad2(date.sec \div 3600) \o ":" \o Pad2((date.sec % 3600) \div 60) \o ":" \o Pad2(date.sec % 60)

\* the days whose keys the model parses: the weeks around the clock's days
ParsedDays == (FirstDay - 7)..(FirstDay + (MaxInstants \div 2) + 7)

\* the key of each of those days
KeyOfDay == [n \in ParsedDays |-> FormatDate([day |-> n, sec |-> 0])]

\* parseISO('yyyy-MM-dd'): local midnight of the day written in the key
ParseISO(key) == [day |-> CHOOSE n \in ParsedDays : KeyOfDay[n] = key, sec |-> 0]

\* addDays(date, i)
AddDays(date, i) == [date EXCEPT !.day = date.day + i]

\* startOfWeek(date, { weekStartsOn: 1 })
StartOfWeek(date) ==
    LET day  == GetDay(date)
        diff == (IF day < WeekStartsOn THEN 7 ELSE 0) + day - WeekStartsOn
    IN  [day |-> date.day - diff, sec |-> 0]

\* isSameDay(a, b)
IsSameDay(a, b) == a.day = b.day

\* format(date, 'EEE', { locale: id })
DayNames == <<"Min", "Sen", "Sel", "Rab", "Kam", "Jum", "Sab">>
FormatEEE(date) == DayNames[GetDay(date) + 1]

----------------------------------------------------------------------------
(* Sequence helpers: Array.prototype.map / filter / slice *)

Min(a, b) == IF a < b THEN a ELSE b

\* arr.slice(0, n)
Slice0(arr, n) == SubSeq(arr, 1, Min(Len(arr), n))

\* arr.filter(r => r.isPresent).length
PresentCount(arr) == Cardinality({i \in 1..Len(arr) : arr[i].isPresent})

\* FRIENDS.map(name => ({ name, time: null, isPresent: false }))
DefaultDay == [i \in 1..Len(FRIENDS) |-> [name |-> FRIENDS[i], time |-> NULL, isPresent |-> FALSE]]

\* the null a corrupted store holds in place of a day's array of records,
\* written as one record that names nobody so that it compares with arrays
NullDay == <<[name |-> NULL, time |-> NULL, isPresent |-> FALSE]>>

\* prev[selectedDate] || default : an absent key reads as undefined, and
\* undefined and null are both falsy
HasKey(h, key) == key \in DOMAIN h /\ h[key] # NullDay

\* { ...prev, [key]: value }
Assign(h, key, value) == [k \in (DOMAIN h) \cup {key} |-> IF k = key THEN value ELSE h[k]]

\* Math.random().toString(36).substr(2, 9) of the s-th draw
RandomId(s) == "r" \o ToString(s)

\* JSON.stringify / JSON.parse of a value made of objects, arrays, strings,
\* booleans and null: the text determines the value
JSONstringify(v) == [json |-> v]
JSONparse(text) == text.json

\* a stored text that is not JSON, and the test that JSON.parse throws on a text
Malformed == [garbage |-> "{oops"]
ParseThrows(text) == "json" \notin DOMAIN text

----------------------------------------------------------------------------
(* Derived values *)

\* currentAttendance: useMemo over [history, selectedDate], which are all it
\* reads, so the cached value is this function of the state
CurrentAttendanceOf(h, date) == IF HasKey(h, date) THEN h[date] ELSE DefaultDay

currentAttendance == CurrentAttendanceOf(history, selectedDate)

\* the body of the weeklyStats memo, evaluated when new Date() gives today
WeeklyStatsOf(h, today) ==
    LET start == StartOfWeek(today)
        days  == [i \in 1..WeekLength |-> FormatDate(AddDays(start, i - 1))]
    IN  [i \in 1..WeekLength |->
            LET date    == days[i]
                dayData == IF HasKey(h, date) THEN h[date] ELSE <<>>
            IN  [name     |-> FormatEEE(ParseISO(date)),
                 fullDate |-> date,
                 count    |-> PresentCount(dayData),
                 isToday  |-> IsSameDay(ParseISO(date), today)]]

\* a slip: the test of isPresent is left out
FindPresent_AnyRecord(records, name) ==
    \E i \in 1..Len(records) : records[i].name = name

\* records.find(r => r.name === name && r.isPresent) is not undefined
FindPresent(records, name) ==
    \E i \in 1..Len(records) : records[i].name = name /\ records[i].isPresent

\* records.find throws a TypeError for some value of the store: the value
\* is null, which has no find
FriendStatsThrows(h) == \E k \in DOMAIN h : h[k] = NullDay

\* totalPresent after Object.values(history).forEach(..)
TotalPresent(h, name) == Cardinality({k \in DOMAIN h : FindPresent(h[k], name)})

\* a slip: the operands are swapped, the order is ascending
CompareTotals_Ascending(a, b) == a.total - b.total

\* (a, b) => b.total - a.total
CompareTotals(a, b) == b.total - a.total

\* position at which x enters the sorted sequence: after every element
\* that does not compare greater than it (Array.prototype.sort is stable)
RECURSIVE InsertAt(_, _, _)
InsertAt(sorted, x, i) ==
    IF i > Len(sorted) THEN i
    ELSE IF CompareTotals(sorted[i], x) > 0 THEN i
    ELSE InsertAt(sorted, x, i + 1)

RECURSIVE SortByTotal(_)
SortByTotal(arr) ==
    IF Len(arr) = 0 THEN <<>>
    ELSE LET sorted == SortByTotal(SubSeq(arr, 1, Len(arr) - 1))
             x      == arr[Len(arr)]
             i      == InsertAt(sorted, x, 1)
         IN  SubSeq(sorted, 1, i - 1) \o <<x>> \o SubSeq(sorted, i, Len(sorted))

\* the body of the friendStats memo
FriendStatsOf(h) ==
    SortByTotal([i \in 1..Len(FRIENDS) |-> [name |-> FRIENDS[i], total |-> TotalPresent(h, FRIENDS[i])]])

\* friendStats: useMemo over [history], which is all it reads
friendStats == FriendStatsOf(history)

----------------------------------------------------------------------------
(* Persistence *)

\* localStorage.getItem(key)
GetItem(st, key) == IF key \in DOMAIN st THEN st[key] ELSE NULL

\* localStorage.getItem(key) is not null
Stored(st, key) == key \in DOMAIN st

\* the two save effects, run after a render in which history / logs changed
SaveHistory(st, h) == Assign(st, HISTORY_KEY, JSONstringify(h))

\* a slip: the log is written under the key of an earlier version, which
\* the initialiser does not read
SaveLogs_OldKey(st, lg) == Assign(st, "attendance_logs", JSONstringify(lg))

SaveLogs(st, lg) == Assign(st, LOGS_KEY, JSONstringify(lg))

\* the lazy initialisers of history and logs
LoadHistory(st) ==
    IF Stored(st, HISTORY_KEY) THEN JSONparse(GetItem(st, HISTORY_KEY)) ELSE <<>>

LoadLogs(st) ==
    IF Stored(st, LOGS_KEY) THEN JSONparse(GetItem(st, LOGS_KEY)) ELSE <<>>

\* the first render throws: JSON.parse in one of the two initialisers, or
\* records.find in the friendStats memo; nothing catches it
StartThrows(st) ==
    \/ Stored(st, HISTORY_KEY) /\ ParseThrows(GetItem(st, HISTORY_KEY))
    \/ Stored(st, LOGS_KEY) /\ ParseThrows(GetItem(st, LOGS_KEY))
    \/ FriendStatsThrows(LoadHistory(st))

\* the App after its first render and mount effects, started at instant t
\* over the localStorage st; when the render throws nothing is mounted, no
\* effect runs and the component has no state
AfterStart(st, t) ==
    IF StartThrows(st)
    THEN [history      |-> <<>>,
          logs         |-> <<>>,
          weeklyStats  |-> <<>>,
          storage      |-> st,
          mounted      |-> FALSE]
    ELSE [history      |-> LoadHistory(st),
          logs         |-> LoadLogs(st),
          weeklyStats  |-> WeeklyStatsOf(LoadHistory(st), t),
          storage      |-> SaveLogs(SaveHistory(st, LoadHistory(st)), LoadLogs(st)),
          mounted      |-> TRUE]

----------------------------------------------------------------------------
(* toggleAttendance *)

\* a slip: the time of a participant who leaves is not cleared
ToggledRecord_KeepsTime(record, timeStr) ==
    [record EXCEPT !.isPresent = ~record.isPresent, !.time = timeStr]

\* a slip: the click marks the participant present instead of flipping
ToggledRecord_MarksPresent(record, timeStr) ==
    [record EXCEPT !.isPresent = TRUE, !.time = timeStr]

\* the record returned for the clicked participant
ToggledRecord(record, timeStr) ==
    LET isNowPresent == ~record.isPresent
    IN  [record EXCEPT !.isPresent = isNowPresent,
                       !.time = IF isNowPresent THEN timeStr ELSE NULL]

\* a slip: filter in place of map, the other records are dropped
UpdatedDayData_OnlyClicked(dayData, name, timeStr) ==
    LET clicked == SelectSeq(dayData, LAMBDA r : r.name = name)
    IN  [i \in 1..Len(clicked) |-> ToggledRecord(clicked[i], timeStr)]

\* dayData.map(record => ..): the new record set
UpdatedDayData(dayData, name, timeStr) ==
    [i \in 1..Len(dayData) |->
        IF dayData[i].name = name THEN ToggledRecord(dayData[i], timeStr) ELSE dayData[i]]

\* a slip: the action is taken from the state before the flip
NewLog_ActionOfOldState(record, name, timeStr, date, seed) ==
    [id     |-> RandomId(seed),
     name   |-> name,
     action |-> IF record.isPresent THEN "masuk" ELSE "keluar",
     time   |-> timeStr,
     date   |-> date]

\* a slip: every entry is written as an arrival
NewLog_AlwaysArrives(record, name, timeStr, date, seed) ==
    [id     |-> RandomId(seed),
     name   |-> name,
     action |-> "masuk",
     time   |-> timeStr,
     date   |-> date]

\* the entry built for a matching record
NewLog(record, name, timeStr, date, seed) ==
    [id     |-> RandomId(seed),
     name   |-> name,
     action |-> IF ~record.isPresent THEN "masuk" ELSE "keluar",
     time   |-> timeStr,
     date   |-> date]

\* a slip: the log is never cut
AppendLog_NoSlice(prevLogs, newLog) == <<newLog>> \o prevLogs

\* a slip: the new entry goes to the end of the log
AppendLog_AtEnd(prevLogs, newLog) == Slice0(prevLogs \o <<newLog>>, LogCap)

\* prevLogs => [newLog, ...prevLogs].slice(0, 100)
AppendLog(prevLogs, newLog) == Slice0(<<newLog>> \o prevLogs, LogCap)

\* the log after the setLogs updaters queued while mapping records i..end
RECURSIVE LogsAfterMap(_, _, _, _, _, _, _)
LogsAfterMap(dayData, i, name, timeStr, date, seed, lg) ==
    IF i > Len(dayData) THEN lg
    ELSE IF dayData[i].name = name
         THEN LogsAfterMap(dayData, i + 1, name, timeStr, date, seed + 1,
                           AppendLog(lg, NewLog(dayData[i], name, timeStr, date, seed)))
         ELSE LogsAfterMap(dayData, i + 1, name, timeStr, date, seed, lg)

\* prev[selectedDate] || FRIENDS.map(..)
DayDataOf(prev, date) == IF HasKey(prev, date) THEN prev[date] ELSE DefaultDay

\* number of records the map matches, each drawing one Math.random()
Matches(prev, date, name) ==
    Cardinality({i \in 1..Len(DayDataOf(prev, date)) : DayDataOf(prev, date)[i].name = name})

\* a slip: the spread of prev is left out of the returned store
HistoryUpdater_OnlySelectedDate(prev, date, name, timeStr) ==
    Assign(<<>>, date, UpdatedDayData(DayDataOf(prev, date), name, timeStr))

\* a slip: the store is returned as it is when no record matches
HistoryUpdater_SkipsUnknown(prev, date, name, timeStr) ==
    IF Matches(prev, date, name) = 0
    THEN prev
    ELSE Assign(prev, date, UpdatedDayData(DayDataOf(prev, date), name, timeStr))

\* the updater passed to setHistory: the store it returns
HistoryUpdater(prev, date, name, timeStr) ==
    Assign(prev, date, UpdatedDayData(DayDataOf(prev, date), name, timeStr))

\* the log after the setLogs updaters that the setHistory updater queues;
\* the setHistory updater runs once for each click
LogsUpdater(prev, date, name, timeStr, seed, prevLogs) ==
    LogsAfterMap(DayDataOf(prev, date), 1, name, timeStr, date, seed, prevLogs)

\* toggleAttendance(name) when new Date() gives t, with the render and the
\* save effects that follow the two state updates
toggleAttendance(name, t) ==
    LET timeStr    == FormatTime(t)
        newHistory == HistoryUpdater(history, selectedDate, name, timeStr)
        newLogs    == LogsUpdater(history, selectedDate, name, timeStr, rng, logs)
        matches    == Matches(history, selectedDate, name)
    IN  /\ history' = newHistory
        /\ logs' = newLogs
        /\ rng' = rng + matches
        /\ now' = t
        /\ weeklyStats' = WeeklyStatsOf(newHistory, t)
        /\ storage' = IF matches > 0
                      THEN SaveLogs(SaveHistory(storage, newHistory), newLogs)
                      ELSE SaveHistory(storage, newHistory)
        /\ UNCHANGED <<selectedDate, time, mounted>>

----------------------------------------------------------------------------
(* resetAttendance *)

\* a slip: the spread of prev is left out, the other dates are lost
resetAttendance_DropsOtherDates(confirmed, t) ==
    IF confirmed
    THEN LET newHistory == Assign(<<>>, selectedDate, DefaultDay)
         IN  /\ history' = newHistory
             /\ now' = t
             /\ weeklyStats' = WeeklyStatsOf(newHistory, t)
             /\ storage' = SaveHistory(storage, newHistory)
             /\ UNCHANGED <<logs, selectedDate, time, rng, mounted>>
    ELSE UNCHANGED vars

\* a slip: the reset deletes the date from the store
resetAttendance_DeletesDay(confirmed, t) ==
    IF confirmed
    THEN LET newHistory == [k \in DOMAIN history \ {selectedDate} |-> history[k]]
         IN  /\ history' = newHistory
             /\ now' = t
             /\ weeklyStats' = WeeklyStatsOf(newHistory, t)
             /\ storage' = SaveHistory(storage, newHistory)
             /\ UNCHANGED <<logs, selectedDate, time, rng, mounted>>
    ELSE UNCHANGED vars

\* resetAttendance() when window.confirm returns confirmed and the render
\* that follows reads t from new Date()
resetAttendance(confirmed, t) ==
    IF confirmed
    THEN LET newHistory == Assign(history, selectedDate, DefaultDay)
         IN  /\ history' = newHistory
             /\ now' = t
             /\ weeklyStats' = WeeklyStatsOf(newHistory, t)
             /\ storage' = SaveHistory(storage, newHistory)
             /\ UNCHANGED <<logs, selectedDate, time, rng, mounted>>
    ELSE UNCHANGED vars

----------------------------------------------------------------------------
(* the date input and the clock *)

\* a slip: selecting a date creates its record set in the store
selectDate_CreatesDay(date) ==
    LET newHistory == Assign(history, date, CurrentAttendanceOf(history, date))
    IN  /\ selectedDate' = date
        /\ history' = newHistory
        /\ storage' = SaveHistory(storage, newHistory)
        /\ UNCHANGED <<logs, time, now, rng, weeklyStats, mounted>>

\* onChange={(e) => setSelectedDate(e.target.value)}
selectDate(date) ==
    /\ selectedDate' = date
    /\ UNCHANGED <<history, logs, time, now, rng, weeklyStats, storage, mounted>>

\* a slip: the timer also moves the date input to the day of the clock
tick_FollowsToday(t) ==
    /\ time' = t
    /\ now' = t
    /\ selectedDate' = FormatDate(t)
    /\ UNCHANGED <<history, logs, rng, weeklyStats, storage, mounted>>

\* setInterval(() => setTime(new Date()), 1000) firing at t
tick(t) ==
    /\ time' = t
    /\ now' = t
    /\ UNCHANGED <<history, logs, selectedDate, rng, weeklyStats, storage, mounted>>

\* the page is loaded again at t: the component starts over what
\* localStorage holds
restart(t) ==
    LET started == AfterStart(storage, t)
    IN  /\ now' = t
        /\ time' = t
        /\ selectedDate' = FormatDate(t)
        /\ history' = started.history
        /\ logs' = started.logs
        /\ weeklyStats' = started.weeklyStats
        /\ storage' = started.storage
        /\ mounted' = started.mounted
        /\ UNCHANGED rng

----------------------------------------------------------------------------
(* the handlers when localStorage.setItem throws *)

\* toggleAttendance(name) when setItem throws in a save effect: the two
\* state updates are committed and rendered, historySaved and logsSaved tell
\* which of the two writes went through, nothing catches the error of the
\* effect and React unmounts the component tree
toggleAttendanceFailing(name, t, historySaved, logsSaved) ==
    LET timeStr    == FormatTime(t)
        newHistory == HistoryUpdater(history, selectedDate, name, timeStr)
        newLogs    == LogsUpdater(history, selectedDate, name, timeStr, rng, logs)
        matches    == Matches(history, selectedDate, name)
        written    == IF historySaved THEN SaveHistory(storage, newHistory) ELSE storage
    IN  /\ history' = newHistory
        /\ logs' = newLogs
        /\ rng' = rng + matches
        /\ now' = t
        /\ weeklyStats' = WeeklyStatsOf(newHistory, t)
        /\ storage' = IF matches > 0 /\ logsSaved THEN SaveLogs(written, newLogs) ELSE written
        /\ mounted' = FALSE
        /\ UNCHANGED <<selectedDate, time>>

\* resetAttendance(), confirmed, when setItem throws in the save effect
resetAttendanceFailing(t) ==
    LET newHistory == Assign(history, selectedDate, DefaultDay)
    IN  /\ history' = newHistory
        /\ now' = t
        /\ weeklyStats' = WeeklyStatsOf(newHistory, t)
        /\ mounted' = FALSE
        /\ UNCHANGED <<logs, selectedDate, time, rng, storage>>

----------------------------------------------------------------------------
(* Inputs *)

\* the instants at which the wall clock is read: the last second of the
\* first day, the first second of the next day, its last second, ..
Instants ==
    {[day |-> FirstDay + (i \div 2), sec |-> IF i % 2 = 1 THEN SecondsPerDay - 1 ELSE 0] : i \in 1..MaxInstants}

\* the wall clock does not run backwards
NotBefore(a, b) == a.day < b.day \/ (a.day = b.day /\ a.sec <= b.sec)

\* the participants the user clicks on: the buttons are rendered from
\* currentAttendance, one per record
ClickNames == {FRIENDS[i] : i \in 1..MaxNames}

\* a name that is not in the roster: toggleAttendance takes any string
Stranger == "Tamu"

\* the values the date input can take
DateInputs == {FormatDate([day |-> FirstDay + i, sec |-> 0]) : i \in 0..(MaxDates - 1)}

----------------------------------------------------------------------------
(* Specifications *)

\* the App component after its first render and mount effects, started at
\* instant t with nothing in localStorage
InitAt(t) ==
    /\ now = t
    /\ time = t
    /\ selectedDate = FormatDate(t)
    /\ history = LoadHistory(<<>>)
    /\ logs = LoadLogs(<<>>)
    /\ rng = 0
    /\ weeklyStats = WeeklyStatsOf(history, t)
    /\ storage = SaveLogs(SaveHistory(<<>>, history), logs)
    /\ mounted = TRUE

Init == \E t \in Instants : InitAt(t)

\* a click on one of the rendered buttons, fewer than limit clicks so far
ToggleBelow(limit) ==
    \E name \in ClickNames, t \in Instants :
        /\ rng < limit
        /\ NotBefore(now, t)
        /\ name \in {currentAttendance[i].name : i \in 1..Len(currentAttendance)}
        /\ toggleAttendance(name, t)

Toggle == ToggleBelow(MaxToggles)

Reset ==
    \E confirmed \in BOOLEAN, t \in Instants :
        /\ NotBefore(now, t)
        /\ resetAttendance(confirmed, t)

SelectDate == \E date \in DateInputs : selectDate(date)

Tick ==
    \E t \in Instants :
        /\ NotBefore(now, t) /\ t # now
        /\ tick(t)

Next == Toggle \/ Reset \/ SelectDate \/ Tick

Spec == Init /\ [][Next]_vars

\* a long session: the first participant is clicked PriorToggles times on
\* the date the app opened on, then the user does as in Spec
PriorToggle ==
    /\ rng < PriorToggles
    /\ toggleAttendance(FRIENDS[1], now)

LateToggle == rng >= PriorToggles /\ ToggleBelow(PriorToggles + MaxToggles)

LateReset == rng >= PriorToggles /\ Reset

LateSelectDate == rng >= PriorToggles /\ SelectDate

LateTick == rng >= PriorToggles /\ Tick

NextLog == PriorToggle \/ LateToggle \/ LateReset \/ LateSelectDate \/ LateTick

SpecLog == Init /\ [][NextLog]_vars

\* the handlers exist while the component is mounted
MountedToggle == mounted /\ Toggle

MountedReset == mounted /\ Reset

MountedSelectDate == mounted /\ SelectDate

MountedTick == mounted /\ Tick

\* a session in which the page is loaded again any number of times
Restart ==
    \E t \in Instants :
        /\ NotBefore(now, t)
        /\ restart(t)

NextRestart == MountedToggle \/ MountedReset \/ MountedSelectDate \/ MountedTick \/ Restart

SpecRestart == Init /\ [][NextRestart]_vars

\* what localStorage can hold under the history key when the app starts:
\* a text that is not JSON, a store in which the value of the first date
\* is null, the store of a session in which the first participant arrived
FirstDate == FormatDate([day |-> FirstDay, sec |-> 0])

EarlierTime == FormatTime([day |-> FirstDay, sec |-> 0])

HistoryTexts ==
    <<Malformed,
      JSONstringify(Assign(<<>>, FirstDate, NullDay)),
      JSONstringify(HistoryUpdater(<<>>, FirstDate, FRIENDS[1], EarlierTime))>>

\* and under the log key: a text that is not JSON, the log of that session
LogTexts ==
    <<Malformed,
      JSONstringify(LogsUpdater(<<>>, FirstDate, FRIENDS[1], EarlierTime, 0 - 1, <<>>))>>

\* localStorage holding the hi-th history text and the li-th log text,
\* the key missing for index 0
StorageOf(hi, li) ==
    LET withHistory == IF hi = 0 THEN <<>> ELSE Assign(<<>>, HISTORY_KEY, HistoryTexts[hi])
    IN  IF li = 0 THEN withHistory ELSE Assign(withHistory, LOGS_KEY, LogTexts[li])

\* the App started at instant t over the localStorage st
StartAt(st, t) ==
    LET started == AfterStart(st, t)
    IN  /\ now = t
        /\ time = t
        /\ selectedDate = FormatDate(t)
        /\ history = started.history
        /\ logs = started.logs
        /\ rng = 0
        /\ weeklyStats = started.weeklyStats
        /\ storage = started.storage
        /\ mounted = started.mounted

InitStored ==
    \E t \in Instants, hi \in 0..Len(HistoryTexts), li \in 0..Len(LogTexts) :
        StartAt(StorageOf(hi, li), t)

NextStartup == MountedToggle \/ MountedReset \/ MountedSelectDate \/ MountedTick

SpecStartup == InitStored /\ [][NextStartup]_vars

\* a session in which a write to localStorage can fail
FailingToggle ==
    \E name \in ClickNames, t \in Instants, historySaved \in BOOLEAN, logsSaved \in BOOLEAN :
        /\ mounted
        /\ rng < MaxToggles
        /\ NotBefore(now, t)
        /\ name \in {currentAttendance[i].name : i \in 1..Len(currentAttendance)}
        /\ ~(historySaved /\ logsSaved)
        /\ toggleAttendanceFailing(name, t, historySaved, logsSaved)

FailingReset ==
    \E t \in Instants :
        /\ mounted
        /\ NotBefore(now, t)
        /\ resetAttendanceFailing(t)

NextQuota ==
    MountedToggle \/ MountedReset \/ MountedSelectDate \/ MountedTick \/ FailingToggle \/ FailingReset

SpecQuota == Init /\ [][NextQuota]_vars

\* a session without resets: the user clicks, picks dates and lets the
\* clock run as in Spec, and after MaxToggles clicks goes on clicking the
\* first participant of the selected date
EarlyToggle == Toggle

EarlySelectDate == rng < MaxToggles /\ SelectDate

EarlyTick == rng < MaxToggles /\ Tick

ChainToggle ==
    /\ rng >= MaxToggles
    /\ rng < PriorToggles + MaxToggles
    /\ toggleAttendance(FRIENDS[1], now)

NextNoReset == EarlyToggle \/ EarlySelectDate \/ EarlyTick \/ ChainToggle

SpecNoReset == Init /\ [][NextNoReset]_vars

\* a session in which toggleAttendance is called with any name, of the
\* roster or not, until more than MaxToggles entries were logged
AnyNameToggle ==
    \E name \in ClickNames \cup {Stranger}, t \in Instants :
        /\ rng <= MaxToggles
        /\ NotBefore(now, t)
        /\ toggleAttendance(name, t)

NextAnyName == AnyNameToggle \/ SelectDate \/ Tick

SpecAnyName == Init /\ [][NextAnyName]_vars

----------------------------------------------------------------------------
(* Properties *)

\* the names of the roster
RosterNames == {FRIENDS[i] : i \in 1..Len(FRIENDS)}

\* a record is absent exactly when it has no time
AbsentIffNoTime(r) == (r.isPresent = FALSE) <=> (r.time = NULL)

\* C1: in every state reached from an empty store by toggle, reset and
\* selectDate, every record of every stored date, and every record shown for
\* the selected date, has isPresent false if and only if its time is null.
C1_AbsentIffNoTime ==
    /\ \A d \in DOMAIN history : \A i \in 1..Len(history[d]) : AbsentIffNoTime(history[d][i])
    /\ \A i \in 1..Len(currentAttendance) : AbsentIffNoTime(currentAttendance[i])

\* a participant is present with a time while another, who arrived and left
\* again on the same date, is absent
C1_Witness ==
    \E d \in DOMAIN history : \E i, j \in 1..Len(history[d]) :
        /\ history[d][i].isPresent /\ history[d][i].time # NULL
        /\ ~history[d][j].isPresent
        /\ \E k \in 1..Len(logs) :
              logs[k].name = history[d][j].name /\ logs[k].date = d /\ logs[k].action = "keluar"

\* C2: every date key of the store maps to exactly one record per roster
\* participant, in roster order, without duplicates.
C2_OneRecordPerFriend ==
    \A d \in DOMAIN history :
        /\ Len(history[d]) = Len(FRIENDS)
        /\ \A i \in 1..Len(FRIENDS) : history[d][i].name = FRIENDS[i]
        /\ \A i, j \in 1..Len(FRIENDS) : i # j => history[d][i].name # history[d][j].name

\* two dates are stored, one with somebody present and one with nobody
C2_Witness ==
    \E d1, d2 \in DOMAIN history :
        /\ d1 # d2
        /\ PresentCount(history[d1]) > 0
        /\ PresentCount(history[d2]) = 0

\* C3: a toggle of roster participant p on the selected date d flips p's
\* isPresent and puts exactly one new entry at the front of the log, with
\* name p and date d; when p becomes present the action is 'masuk' and the
\* record's time is the current time, which is also the entry's time; when p
\* becomes absent the action is 'keluar' and the record's time is null.
C3_ToggleFlipsAndLogs ==
    [][rng' # rng =>
        LET d      == selectedDate
            before == currentAttendance
        IN  /\ rng' = rng + 1
            /\ Len(logs') >= 1
            /\ Len(logs') >= Len(logs)
            /\ SubSeq(logs', 2, Len(logs')) = SubSeq(logs, 1, Len(logs') - 1)
            /\ logs'[1].name \in RosterNames
            /\ logs'[1].date = d
            /\ d \in DOMAIN history'
            /\ \E i \in 1..Len(before) : before[i].name = logs'[1].name
            /\ \A i \in 1..Len(before) :
                  before[i].name = logs'[1].name =>
                      /\ history'[d][i].isPresent = ~before[i].isPresent
                      /\ IF history'[d][i].isPresent
                         THEN /\ logs'[1].action = "masuk"
                              /\ logs'[1].time = FormatTime(now')
                              /\ history'[d][i].time = logs'[1].time
                         ELSE /\ logs'[1].action = "keluar"
                              /\ history'[d][i].time = NULL
    ]_vars

\* the second participant has arrived and has left again
C3_Witness ==
    /\ Len(logs) >= 2
    /\ logs[1].name = FRIENDS[2] /\ logs[1].action = "keluar"
    /\ \E k \in 2..Len(logs) : logs[k].name = FRIENDS[2] /\ logs[k].action = "masuk"

\* the all-absent record of the i-th roster participant
AbsentRecord(i) == [name |-> FRIENDS[i], time |-> NULL, isPresent |-> FALSE]

\* the store and the log after toggling p twice in succession on the
\* selected date, the clock giving t1 and then t2
TwoToggles(p, t1, t2) ==
    LET d  == selectedDate
        h1 == HistoryUpdater(history, d, p, FormatTime(t1))
        l1 == LogsUpdater(history, d, p, FormatTime(t1), rng, logs)
        r1 == rng + Matches(history, d, p)
        h2 == HistoryUpdater(h1, d, p, FormatTime(t2))
        l2 == LogsUpdater(h1, d, p, FormatTime(t2), r1, l1)
    IN  [history |-> h2, logs |-> l2]

\* what two toggles of p leave of the store: p's record as it was, up to the
\* value of a non-null time, and every other record of every date unchanged
TwoTogglesRestoreStore(p, after) ==
    LET d      == selectedDate
        before == currentAttendance
    IN  /\ DOMAIN after.history = (DOMAIN history) \cup {d}
        /\ \A k \in (DOMAIN history) \ {d} : after.history[k] = history[k]
        /\ Len(after.history[d]) = Len(before)
        /\ \A i \in 1..Len(before) :
              IF before[i].name = p
              THEN /\ after.history[d][i].isPresent = before[i].isPresent
                   /\ (after.history[d][i].time = NULL) <=> (before[i].time = NULL)
                   /\ after.history[d][i].name = p
              ELSE after.history[d][i] = before[i]

\* the two newest entries are for p on the selected date, with opposite actions
TwoNewEntries(p, after) ==
    /\ Len(after.logs) >= 2
    /\ after.logs[1].name = p /\ after.logs[2].name = p
    /\ after.logs[1].date = selectedDate /\ after.logs[2].date = selectedDate
    /\ after.logs[1].action # after.logs[2].action

\* C4 as stated: two toggles of (d, p) in succession return p's isPresent and
\* the null/non-null shape of its time to the value before, leave every other
\* record unchanged, and grow the log by exactly two entries for p with
\* opposite actions.
C4_TwoTogglesGrowLogByTwo ==
    \A p \in RosterNames : \A t1, t2 \in Instants :
        (NotBefore(now, t1) /\ NotBefore(t1, t2)) =>
        LET after == TwoToggles(p, t1, t2)
        IN  /\ TwoTogglesRestoreStore(p, after)
            /\ TwoNewEntries(p, after)
            /\ Len(after.logs) = Len(logs) + 2
            /\ SubSeq(after.logs, 3, Len(after.logs)) = logs

\* C4 as amended: two toggles of (d, p) in succession return p's isPresent
\* and the null/non-null shape of its time to the value before, leave every
\* other record unchanged, and put exactly two new entries for p with
\* opposite actions at the front of the log, followed by the previous
\* entries, of which the oldest are dropped so that 100 at most are kept.
C4_TwoTogglesRestore ==
    \A p \in RosterNames : \A t1, t2 \in Instants :
        (NotBefore(now, t1) /\ NotBefore(t1, t2)) =>
        LET after == TwoToggles(p, t1, t2)
        IN  /\ TwoTogglesRestoreStore(p, after)
            /\ TwoNewEntries(p, after)
            /\ Len(after.logs) = Min(Len(logs) + 2, 100)
            /\ SubSeq(after.logs, 3, Len(after.logs)) = SubSeq(logs, 1, Len(after.logs) - 2)

\* the log is full and its two newest entries are an arrival and a
\* departure of one participant on one date
C4_Witness ==
    /\ Len(logs) = 100
    /\ logs[1].name = logs[2].name /\ logs[1].date = logs[2].date
    /\ logs[1].action = "keluar" /\ logs[2].action = "masuk"
    /\ logs[1].name = FRIENDS[2]

\* C5: a reset on the selected date d replaces d's record set by the
\* all-absent roster default and leaves the log and the record sets of all
\* other dates unchanged; nothing is logged for those who were present.
C5_ResetFrame ==
    [][(rng' = rng /\ history' # history) =>
        LET d == selectedDate
        IN  /\ DOMAIN history' = (DOMAIN history) \cup {d}
            /\ Len(history'[d]) = Len(FRIENDS)
            /\ \A i \in 1..Len(FRIENDS) : history'[d][i] = AbsentRecord(i)
            /\ \A k \in (DOMAIN history) \ {d} : history'[k] = history[k]
            /\ logs' = logs
    ]_vars

\* the newest entry is an arrival, yet that participant is absent on that
\* date, another date is stored with somebody present
C5_Witness ==
    /\ Len(logs) >= 1
    /\ logs[1].action = "masuk"
    /\ logs[1].date \in DOMAIN history
    /\ ~FindPresent(history[logs[1].date], logs[1].name)
    /\ \E k \in DOMAIN history : k # logs[1].date /\ PresentCount(history[k]) > 0

\* C6: a date that was never toggled or reset reads as |FRIENDS| all-absent
\* records in roster order, also after it is selected, and selecting a date
\* changes neither the store, nor the log, nor what is saved.
C6_UnseenDateReadsDefault ==
    /\ [](\A d \in (DateInputs \cup {selectedDate}) \ (DOMAIN history) :
             /\ Len(CurrentAttendanceOf(history, d)) = Len(FRIENDS)
             /\ \A i \in 1..Len(FRIENDS) : CurrentAttendanceOf(history, d)[i] = AbsentRecord(i))
    /\ [][selectedDate' # selectedDate =>
             history' = history /\ logs' = logs /\ storage' = storage]_vars

\* after a toggle on one date, a date that is not in the store is selected
C6_Witness ==
    /\ selectedDate \notin DOMAIN history
    /\ DOMAIN history # {}
    /\ Len(logs) >= 1
    /\ selectedDate # logs[1].date

\* C7: the log never holds more than 100 entries; an append to a full log
\* evicts the oldest entry, so after 101 appends the length is exactly 100
\* and the first appended entry is gone.
C7_LogBounded ==
    /\ Len(logs) <= 100
    /\ Len(logs) = Min(rng, 100)
    /\ rng >= 101 =>
          /\ Len(logs) = 100
          /\ \A i \in 1..Len(logs) : logs[i].id # RandomId(0)
          /\ logs[Len(logs)].id = RandomId(rng - 100)

\* 101 entries have been appended
C7_Witness == rng = 101 /\ Len(logs) = 100 /\ logs[1].id = RandomId(100)

\* C8: the log is newest-first and append-only: the i-th entry is the i-th
\* latest appended, and every step that changes the log puts one new entry
\* in front of a prefix of the previous log, which loses at most its last
\* entry.
C8_NewestFirstAppendOnly ==
    /\ [](\A i \in 1..Len(logs) : logs[i].id = RandomId(rng - i))
    /\ [][logs' # logs =>
             /\ Len(logs') >= 1
             /\ Len(logs') >= Len(logs)
             /\ SubSeq(logs', 2, Len(logs')) = SubSeq(logs, 1, Len(logs') - 1)]_vars

\* entries of two participants are retained after an eviction
C8_Witness ==
    /\ rng > 100
    /\ logs[1].name # logs[2].name
    /\ logs[2].name # logs[3].name

\* the day the wall clock shows
Today == now.day

\* the Monday of the week that contains today
MondayOfToday == CHOOSE m \in (Today - 6)..Today : (m + 4) % 7 = 1

\* the number of present records stored for a date key, 0 if it is not stored
StoredPresent(key) ==
    IF key \in DOMAIN history
    THEN Cardinality({j \in 1..Len(history[key]) : history[key][j].isPresent})
    ELSE 0

\* C9: weekly stats has exactly 7 entries, for the consecutive dates Monday
\* to Sunday of the week containing today; exactly one entry has isToday
\* true, the one whose date is today; each count is the number of present
\* records stored for that date, 0 when the date is not in the store.
C9_WeeklyStatsOfThisWeek ==
    /\ Len(weeklyStats) = 7
    /\ \A i \in 1..7 :
          /\ weeklyStats[i].fullDate = KeyOfDay[MondayOfToday + i - 1]
          /\ weeklyStats[i].isToday <=> (MondayOfToday + i - 1 = Today)
          /\ weeklyStats[i].count = StoredPresent(weeklyStats[i].fullDate)
    /\ Cardinality({i \in 1..7 : weeklyStats[i].isToday}) = 1

\* the sum of the totals of the entries i..end of a statistics list
RECURSIVE SumTotals(_, _)
SumTotals(stats, i) == IF i > Len(stats) THEN 0 ELSE stats[i].total + SumTotals(stats, i + 1)

\* the sum over a set of stored dates of their numbers of present records
RECURSIVE SumPresent(_)
SumPresent(keys) ==
    IF keys = {} THEN 0
    ELSE LET k == CHOOSE k \in keys : TRUE
         IN  StoredPresent(k) + SumPresent(keys \ {k})

\* C10: friend stats has exactly one entry per roster participant, each
\* total is the number of stored dates on which that participant's record is
\* present now, however often it was toggled, and the totals add up to the
\* number of present records of all stored dates.
C10_FriendStatsTotals ==
    LET stats == friendStats
    IN  /\ Len(stats) = Len(FRIENDS)
        /\ \A p \in RosterNames : Cardinality({i \in 1..Len(stats) : stats[i].name = p}) = 1
        /\ \A i \in 1..Len(stats) :
              stats[i].total =
                  Cardinality({d \in DOMAIN history :
                      \E j \in 1..Len(history[d]) :
                          history[d][j].name = stats[i].name /\ history[d][j].isPresent})
        /\ SumTotals(stats, 1) = SumPresent(DOMAIN history)

\* a participant was toggled an odd number of times on one date and counts
\* one day, while two dates are stored
C10_Witness ==
    /\ Len(logs) >= 3
    /\ logs[1].name = logs[2].name /\ logs[2].name = logs[3].name
    /\ logs[1].date = logs[2].date /\ logs[2].date = logs[3].date
    /\ Cardinality(DOMAIN history) >= 2
    /\ LET stats == friendStats
       IN  \E i \in 1..Len(stats) : stats[i].name = logs[1].name /\ stats[i].total = 1

----------------------------------------------------------------------------
\* position of a participant in the roster
RosterIndex(name) == CHOOSE i \in 1..Len(FRIENDS) : FRIENDS[i] = name

\* C11: the friend statistics are ordered by total, largest first, and
\* participants with equal totals appear in roster order
C11_FriendStatsOrdered ==
    LET stats == friendStats
    IN  \A i, j \in 1..Len(stats) :
            i < j =>
                /\ stats[i].total >= stats[j].total
                /\ stats[i].total = stats[j].total =>
                       RosterIndex(stats[i].name) < RosterIndex(stats[j].name)

\* the sort has moved a later participant of the roster ahead of the first,
\* and the participants behind it are tied
C11_Witness ==
    LET stats == friendStats
    IN  /\ stats[1].name = FRIENDS[2]
        /\ stats[1].total > stats[2].total
        /\ stats[2].name = FRIENDS[1]
        /\ stats[2].total = stats[3].total

----------------------------------------------------------------------------
\* C12: after every operation, with its save step, the text stored under
\* the history key is that of the in-memory store and the text stored under
\* the log key is that of the in-memory log, so that loading from storage
\* gives back exactly the store and the log; a restart leaves both as they were
C12_StorageMirrorsState ==
    /\ [](/\ LoadHistory(storage) = history
          /\ LoadLogs(storage) = logs
          /\ Stored(storage, HISTORY_KEY)
          /\ Stored(storage, LOGS_KEY)
          /\ GetItem(storage, HISTORY_KEY) = JSONstringify(history)
          /\ GetItem(storage, LOGS_KEY) = JSONstringify(logs))
    /\ [][(\E t \in Instants : restart(t)) =>
             /\ mounted'
             /\ history' = history
             /\ logs' = logs]_vars

\* the app was loaded again after toggles on two dates: the date input is
\* back on the day of the clock, the store and the log hold both toggles
C12_Witness ==
    /\ Len(logs) = 2
    /\ logs[1].date # logs[2].date
    /\ selectedDate = logs[2].date
    /\ DOMAIN history = {logs[1].date, logs[2].date}
    /\ PresentCount(history[logs[1].date]) = 1
    /\ PresentCount(history[logs[2].date]) = 1

----------------------------------------------------------------------------
\* the text stored under key is not JSON
HoldsMalformed(key) == Stored(storage, key) /\ ParseThrows(GetItem(storage, key))

\* C13: when the app starts over a stored value that is not valid JSON,
\* startup does not fail and the store, or the log, whose value it was
\* starts empty
C13_MalformedStartsEmpty ==
    /\ HoldsMalformed(HISTORY_KEY) => (mounted /\ history = <<>>)
    /\ HoldsMalformed(LOGS_KEY) => (mounted /\ logs = <<>>)

\* C14: when the app starts over a stored history in which the value of a
\* date is null, loading succeeds, the date reads as the all-absent default
\* and the statistics are computed without a fault
C14_NullDayReadsDefault ==
    (~HoldsMalformed(HISTORY_KEY) /\ ~HoldsMalformed(LOGS_KEY)) =>
        \A k \in DOMAIN LoadHistory(storage) :
            LoadHistory(storage)[k] = NullDay =>
                /\ mounted
                /\ CurrentAttendanceOf(history, k) = DefaultDay
                /\ \A i \in 1..WeekLength :
                       WeeklyStatsOf(history, now)[i].fullDate = k =>
                           WeeklyStatsOf(history, now)[i].count = 0
                /\ ~FriendStatsThrows(history)

\* C15: when a write to localStorage fails after a mutation, so that the
\* stored values are behind the in-memory store or log, the failure is
\* ignored: the app keeps running on the in-memory state
C15_WriteFailureIgnored ==
    (LoadHistory(storage) # history \/ LoadLogs(storage) # logs) => mounted

----------------------------------------------------------------------------
\* C16: a toggle of participant p on date d leaves the record of every
\* other participant on d as it was, and leaves the record sets of all
\* other dates as they were
C16_ToggleFrame ==
    [][rng' # rng =>
        LET p      == logs'[1].name
            d      == selectedDate
            before == currentAttendance
        IN  /\ DOMAIN history' = DOMAIN history \cup {d}
            /\ \A k \in DOMAIN history \ {d} : history'[k] = history[k]
            /\ Len(history'[d]) = Len(before)
            /\ \A i \in 1..Len(before) :
                   before[i].name # p => history'[d][i] = before[i]]_vars

\* the last toggle was made on a date other than the one before it, and
\* the date of the earlier toggle still holds its two present participants
C16_Witness ==
    /\ Len(logs) >= 2
    /\ logs[1].date # logs[2].date
    /\ logs[1].date \in DOMAIN history
    /\ logs[2].date \in DOMAIN history
    /\ PresentCount(history[logs[2].date]) = 2
    /\ PresentCount(history[logs[1].date]) = 1

----------------------------------------------------------------------------
\* C17: the set of date keys of the store only grows: no step removes a
\* key, and a key is added only by a toggle or a reset, and then it is the
\* selected date
C17_KeysOnlyGrow ==
    [][/\ DOMAIN history \subseteq DOMAIN history'
       /\ DOMAIN history' # DOMAIN history =>
              /\ DOMAIN history' = DOMAIN history \cup {selectedDate}
              /\ selectedDate' = selectedDate
              /\ \/ rng' # rng
                 \/ logs' = logs /\ history'[selectedDate] = DefaultDay]_vars

\* the store holds two dates, one entered by a toggle and one by a reset
C17_Witness ==
    /\ Cardinality(DOMAIN history) = 2
    /\ Len(logs) = 1
    /\ PresentCount(history[logs[1].date]) = 1
    /\ \E k \in DOMAIN history : k # logs[1].date /\ history[k] = DefaultDay

----------------------------------------------------------------------------
\* C18: a clock tick changes the displayed time only: it leaves the store,
\* the log, the selected date and the two stored values as they were, and
\* what a toggle or a reset that follows makes of the store and the log is
\* what it would have made of them before the tick
C18_TickFrame ==
    [][time' # time =>
        /\ history' = history
        /\ logs' = logs
        /\ selectedDate' = selectedDate
        /\ storage' = storage
        /\ \A p \in ClickNames, t \in Instants :
               /\ HistoryUpdater(history', selectedDate', p, FormatTime(t))
                      = HistoryUpdater(history, selectedDate, p, FormatTime(t))
               /\ LogsUpdater(history', selectedDate', p, FormatTime(t), rng', logs')
                      = LogsUpdater(history, selectedDate, p, FormatTime(t), rng, logs)
        /\ Assign(history', selectedDate', DefaultDay) = Assign(history, selectedDate, DefaultDay)]_vars

\* the clock has ticked past midnight after a toggle: the displayed time is
\* later than the time of the newest entry and the date input is unmoved
C18_Witness ==
    /\ Len(logs) >= 1
    /\ time = now
    /\ logs[1].time # FormatTime(time)
    /\ logs[1].date = selectedDate
    /\ selectedDate # FormatDate(time)
    /\ LoadLogs(storage) = logs

----------------------------------------------------------------------------
\* the (participant, date) pairs recorded present in the store
PresentPairs ==
    UNION {{<<history[d][i].name, d>> : i \in {j \in 1..Len(history[d]) : history[d][j].isPresent}} :
              d \in DOMAIN history}

\* the (participant, date) pairs that have an entry in the log
LogPairs == {<<logs[i].name, logs[i].date>> : i \in 1..Len(logs)}

\* the log entries of participant p on date d, newest first
EntriesOf(p, d) == SelectSeq(logs, LAMBDA e : e.name = p /\ e.date = d)

\* C19: in a run from the empty store and log with no reset and fewer than
\* 100 toggles, for every date d and participant p, p is present on d
\* exactly when the newest log entry of (p, d) is 'masuk', and the actions of
\* the entries of (p, d) alternate, oldest first, starting with 'masuk'; a
\* pair that is neither present nor in the log satisfies both trivially
C19_LogAgreesWithStore ==
    rng < LogCap =>
        \A pair \in PresentPairs \cup LogPairs :
            LET entries == EntriesOf(pair[1], pair[2])
            IN  /\ pair \in PresentPairs <=>
                       (Len(entries) > 0 /\ entries[1].action = "masuk")
                /\ \A k \in 1..Len(entries) :
                       entries[k].action =
                           IF (Len(entries) - k) % 2 = 0 THEN "masuk" ELSE "keluar"

\* 99 toggles were made, on two dates and of two participants, and the
\* first participant is present on the selected date
C19_Witness ==
    /\ rng = LogCap - 1
    /\ \E i, j \in 1..Len(logs) :
           logs[i].date # logs[j].date /\ logs[i].name # logs[j].name
    /\ <<FRIENDS[1], selectedDate>> \in PresentPairs

----------------------------------------------------------------------------
\* C20: a toggle with a name that is not in the roster changes no record
\* and appends no log entry, but it is not a no-op on the store: when the
\* selected date is not yet a key, the all-absent default is inserted for it
C20_UnknownNameToggle ==
    [][(\E t \in Instants : toggleAttendance(Stranger, t)) =>
        /\ logs' = logs
        /\ rng' = rng
        /\ \A k \in DOMAIN history : history'[k] = history[k]
        /\ DOMAIN history' = DOMAIN history \cup {selectedDate}
        /\ selectedDate \notin DOMAIN history =>
               (history' # history /\ history'[selectedDate] = DefaultDay)]_vars

\* the selected date was entered in the store by a toggle of the unknown
\* name: it holds the default and no log entry is of that date, while the
\* date of the newest entry keeps its present participant
C20_Witness ==
    /\ selectedDate \in DOMAIN history
    /\ history[selectedDate] = DefaultDay
    /\ \A i \in 1..Len(logs) : logs[i].date # selectedDate /\ logs[i].name # Stranger
    /\ Len(logs) >= 1
    /\ PresentCount(history[logs[1].date]) = 1

====
